---------------------------- MODULE Spec2Model ----------------------------
(***************************************************************************)
(* wanderer-connector: the pooled CRUD service (src/src/main.rs,           *)
(* src/src/handlers.rs, src/src/db/mod.rs) and the LISTEN/NOTIFY example   *)
(* (src/examples/listen-notify.rs).                                        *)
(*                                                                         *)
(* The repository builds two executables.  A behaviour of this module is   *)
(* a run of one of them: `running` says which.                             *)
(*                                                                         *)
(* A task is one HTTP request to a /users route.  The five repository      *)
(* functions start with the same statement, get_connection(pool)?, and     *)
(* differ from the closure on; nothing reads the kind of a request or its  *)
(* arguments before the closure runs or the acquire fails, so the model    *)
(* draws them in that step and keeps no copy of them in the task.          *)
(***************************************************************************)
EXTENDS Integers, Sequences, FiniteSets, TLC

\* ------------------------------------------------------------- bounds
\* Capacity of the r2d2 pool.  db/mod.rs:14 sets max_size(10); the model
\* scales it down so that exhaustion is reached with NumTasks requests.
max_size == 2
\* HTTP requests that can be in flight at once (more than max_size).
NumTasks == 3
\* Event-loop (tokio worker) threads that poll the handlers.
NumThreads == 1
\* r2d2's connection_timeout (its default, 30 s), counted in clock ticks.
ConnectionTimeout == 1

\* Frames the datastore sends on the listener's socket in one run.
MaxFrames == 3

Tasks == 1..NumTasks
\* Identities (uuids) the datastore can hand out, and the id of no row.
Ids == {"u1", "u2"}
NoId == "-"
Names == {"ann", "bob"}
Emails == {"a@x", "b@x"}
\* Option::None of an UpdateUser field.
None == "None"
\* The value of now() at an insert.
Stamps == {"t1"}

\* The /users routes, by the UserRepository function they call.
Kinds == {"create", "get", "list", "update", "delete"}
\* A repository call ends with the outcome "Ok" or with the error that
\* reaches its caller: "PoolExhausted" (r2d2's "timed out waiting for
\* connection"), "NotFound" and "QueryBuilderError" (diesel's), "DatabaseError"
\* (any other diesel error), "JoinError" (the closure panicked).

VARIABLES
  running,   \* "none" | "server" | "listener": the executable that was started
  pool,      \* the connections the r2d2 pool owns
  idle,      \* the pooled connections that are not checked out
  pc,        \* per task: "idle" | "acquire" | "spawned" | "detached"
  waited,    \* per task: ticks spent inside pool.get()
  conn,      \* per task: the PooledConnection it owns, 0 when none
  db,        \* the users table: id -> row
  used,      \* the ids the datastore has handed out so far
  resp,      \* the last response a handler returned
  pcmds,     \* the classes of command executed on pooled connections
  lpc,       \* listener main task: "start" | "spawn" | "function" | "trigger"
             \*   | "listen" | "loop" | "exit"
  lconn,     \* listener connection: "none" | "up" | "lost" | "closed"
  fwd,       \* forwarding task: "none" | "running" | "panicked" | "stopped"
  cons,      \* consumer task: "none" | "running" | "done" | "stopped"
  wire,      \* frames the socket holds, not yet read by poll_message
  chan,      \* the unbounded mpsc channel between the two tasks
  got,       \* the notifications the consumer has collected
  sent,      \* frames and inserts the datastore has produced so far
  installed, \* what is installed in the datastore: "function", "trigger"
  listening, \* the channels the listener's session has LISTENed to
  lcmds      \* the classes of command executed on the listener connection

svars == <<pool, idle, pc, waited, conn, db, used, resp, pcmds>>
lvars == <<lpc, lconn, fwd, cons, wire, chan, got, sent, installed, listening, lcmds>>
vars == <<running, svars, lvars>>

NoResp ==
  [kind |-> "none", id |-> NoId, name |-> None, email |-> None,
   outcome |-> "none", users |-> {}, deleted |-> FALSE, status |-> 0]

Init ==
  /\ running = "none"
  /\ pool = {}
  /\ idle = {}
  /\ pc = [t \in Tasks |-> "idle"]
  /\ waited = [t \in Tasks |-> 0]
  /\ conn = [t \in Tasks |-> 0]
  /\ db = <<>>
  /\ used = {}
  /\ resp = NoResp
  /\ pcmds = {}
  /\ lpc = "start"
  /\ lconn = "none"
  /\ fwd = "none"
  /\ cons = "none"
  /\ wire = <<>>
  /\ chan = <<>>
  /\ got = <<>>
  /\ sent = 0
  /\ installed = {}
  /\ listening = {}
  /\ lcmds = {}

\* db::establish_connection_pool, called by main: the pool is built with
\* max_size connections (r2d2 opens min_idle = max_size of them at build).
establish_connection_pool ==
  /\ running = "none"
  /\ running' = "server"
  /\ pool' = 1..max_size
  /\ idle' = 1..max_size
  /\ UNCHANGED <<pc, waited, conn, db, used, resp, pcmds, lvars>>

\* ------------------------------------------------------- data (models.rs)
\* A row of users as the datastore creates it: the insert supplies name and
\* email (NewUser); id, created_at and updated_at are the table's defaults.
User(id, name, email, stamp) ==
  [id |-> id, name |-> name, email |-> email,
   created_at |-> stamp, updated_at |-> stamp]

\* A changeset that assigns every column, set or not.
AsChangeset_replace(row, name, email) ==
  [row EXCEPT !.name = name, !.email = email]

\* #[derive(AsChangeset)] on UpdateUser: a field that is None is left out of
\* the SET clause; no other column is assigned.
AsChangeset(row, name, email) ==
  [row EXCEPT !.name = IF name = None THEN @ ELSE name,
              !.email = IF email = None THEN @ ELSE email]

\* --------------------------------------------- HTTP handlers (main.rs)
create_user_status(outcome) == IF outcome = "Ok" THEN 200 ELSE 500

get_users_status(outcome) == IF outcome = "Ok" THEN 200 ELSE 500

get_user_status(outcome) == IF outcome = "Ok" THEN 200 ELSE 404

update_user_status(outcome) == IF outcome = "Ok" THEN 200 ELSE 500

delete_user_status(outcome, deleted) ==
  IF outcome = "Ok" THEN (IF deleted THEN 204 ELSE 404) ELSE 500

\* The route table: the handler that serves a request kind.
create_router(kind, outcome, deleted) ==
  CASE kind = "create" -> create_user_status(outcome)
    [] kind = "list"   -> get_users_status(outcome)
    [] kind = "get"    -> get_user_status(outcome)
    [] kind = "update" -> update_user_status(outcome)
    [] kind = "delete" -> delete_user_status(outcome, deleted)

\* ------------------------------------------------ the pool (db/mod.rs)
\* pool.get() that opens one more connection when none is idle.
Available_or_new == IF idle = {} THEN {Cardinality(pool) + 1} ELSE idle

\* pool.get(): the connections it can hand out now.  The pool was built with
\* max_size connections and opens no other one; none idle means waiting.
Available == idle

\* Event-loop threads that are inside a synchronous pool.get().
BlockedThreads == Cardinality({t \in Tasks : pc[t] = "acquire"})

\* An HTTP request reaches its handler on a free event-loop thread; the
\* handler calls its repository function, which starts with
\* get_connection(pool), inline on that thread.  With an idle connection
\* pool.get() returns at once and the closure is spawned before the first
\* await; with none the thread stays inside pool.get().
Request(t) ==
  /\ running = "server"
  /\ pc[t] = "idle"
  /\ BlockedThreads < NumThreads
  /\ waited' = [waited EXCEPT ![t] = 0]
  /\ IF Available = {}
     THEN /\ pc' = [pc EXCEPT ![t] = "acquire"]
          /\ UNCHANGED <<idle, conn>>
     ELSE /\ pc' = [pc EXCEPT ![t] = "spawned"]
          /\ \E c \in Available :
               /\ idle' = idle \ {c}
               /\ conn' = [conn EXCEPT ![t] = c]
  /\ UNCHANGED <<running, pool, db, used, resp, pcmds, lvars>>

\* pool.get() that hands out any connection of the pool, idle or not.
get_connection_shared(t) ==
  /\ pc[t] = "acquire"
  /\ \E c \in pool :
       /\ idle' = idle \ {c}
       /\ conn' = [conn EXCEPT ![t] = c]
  /\ pc' = [pc EXCEPT ![t] = "spawned"]
  /\ waited' = [waited EXCEPT ![t] = 0]
  /\ UNCHANGED <<running, pool, db, used, resp, pcmds, lvars>>

\* get_connection, Ok, after a wait: a connection was put back and pool.get()
\* hands it out; the caller moves it into the closure given to spawn_blocking
\* and awaits the handle.
get_connection(t) ==
  /\ pc[t] = "acquire"
  /\ \E c \in Available :
       /\ idle' = idle \ {c}
       /\ conn' = [conn EXCEPT ![t] = c]
  /\ pc' = [pc EXCEPT ![t] = "spawned"]
  /\ waited' = [waited EXCEPT ![t] = 0]
  /\ UNCHANGED <<running, pool, db, used, resp, pcmds, lvars>>

\* Time passes while pool.get() waits on an exhausted pool.
Tick ==
  /\ idle = {}
  /\ \E t \in Tasks : pc[t] = "acquire" /\ waited[t] < ConnectionTimeout
  /\ waited' = [t \in Tasks |->
                  IF pc[t] = "acquire" /\ waited[t] < ConnectionTimeout
                  THEN waited[t] + 1 ELSE waited[t]]
  /\ UNCHANGED <<running, pool, idle, pc, conn, db, used, resp, pcmds, lvars>>

\* A closure that keeps its connection when it unwinds.
Return_leak(t, kind, id, name, email, outcome, users, deleted) ==
  /\ idle' = IF conn[t] = 0 \/ outcome = "JoinError" THEN idle
             ELSE idle \cup {conn[t]}
  /\ conn' = [conn EXCEPT ![t] = 0]
  /\ pc' = [pc EXCEPT ![t] = "idle"]
  /\ waited' = [waited EXCEPT ![t] = 0]
  /\ resp' = IF pc[t] = "detached" THEN resp
             ELSE [kind |-> kind, id |-> id, name |-> name,
                   email |-> email, outcome |-> outcome, users |-> users,
                   deleted |-> deleted,
                   status |-> create_router(kind, outcome, deleted)]
  /\ UNCHANGED <<running, pool, lvars>>

\* The end of a repository call and of the handler that made it: the closure
\* has returned (or unwound), which drops the PooledConnection it owns and so
\* puts it back; the JoinHandle resolves, `??` yields the outcome, and the
\* handler turns it into the response.  A caller that was dropped gets none.
Return(t, kind, id, name, email, outcome, users, deleted) ==
  /\ idle' = IF conn[t] = 0 THEN idle ELSE idle \cup {conn[t]}
  /\ conn' = [conn EXCEPT ![t] = 0]
  /\ pc' = [pc EXCEPT ![t] = "idle"]
  /\ waited' = [waited EXCEPT ![t] = 0]
  /\ resp' = IF pc[t] = "detached" THEN resp
             ELSE [kind |-> kind, id |-> id, name |-> name,
                   email |-> email, outcome |-> outcome, users |-> users,
                   deleted |-> deleted,
                   status |-> create_router(kind, outcome, deleted)]
  /\ UNCHANGED <<running, pool, lvars>>

\* pool.get() that gives up without waiting.
get_connection_err_early(t, kind) ==
  /\ pc[t] = "acquire"
  /\ Return(t, kind, NoId, None, None, "PoolExhausted", {}, FALSE)
  /\ UNCHANGED <<db, used, pcmds>>

\* get_connection, Err: pool.get() gave up after connection_timeout; `?`
\* returns the error from the repository function before anything is spawned.
get_connection_err(t, kind) ==
  /\ pc[t] = "acquire"
  /\ waited[t] = ConnectionTimeout
  /\ Return(t, kind, NoId, None, None, "PoolExhausted", {}, FALSE)
  /\ UNCHANGED <<db, used, pcmds>>

\* Where task t is executing: inside pool.get() it is on the event-loop
\* thread that polled its handler; the closure is on a worker thread.
ExecutionContext(t) ==
  CASE pc[t] = "acquire" -> "event_loop"
    [] pc[t] \in {"spawned", "detached"} -> "worker"
    [] OTHER -> "none"

\* Dropping the caller's future also drops the closure, unrun, with the
\* connection it owns.
Abandon_cancel(t) ==
  /\ pc[t] = "spawned"
  /\ pc' = [pc EXCEPT ![t] = "idle"]
  /\ idle' = idle \cup {conn[t]}
  /\ conn' = [conn EXCEPT ![t] = 0]
  /\ UNCHANGED <<running, pool, waited, db, used, resp, pcmds, lvars>>

\* The caller's future is dropped while it awaits the JoinHandle (the client
\* went away): the closure is already on a worker thread and keeps running.
Abandon(t) ==
  /\ pc[t] = "spawned"
  /\ pc' = [pc EXCEPT ![t] = "detached"]
  /\ UNCHANGED <<running, pool, idle, waited, conn, db, used, resp, pcmds, lvars>>

\* ------------------------------------- UserRepository (handlers.rs)
\* A closure that also subscribes on its pooled connection.
Dispatched_listen(t) ==
  /\ pc[t] \in {"spawned", "detached"}
  /\ conn[t] \in pool
  /\ pcmds' = pcmds \cup {"crud", "listen"}

\* The closure runs on a worker thread and sends its one statement over the
\* connection it owns.
Dispatched(t) ==
  /\ pc[t] \in {"spawned", "detached"}
  /\ conn[t] \in pool
  /\ pcmds' = pcmds \cup {"crud"}

\* A failure that is dropped: the caller gets Ok, with nothing in it.
Fails_swallow(t, kind, id) ==
  /\ Return(t, kind, id, None, None, "Ok", {}, FALSE)
  /\ UNCHANGED <<db, used>>

\* A statement that fails (a datastore error, or a panic inside the closure,
\* which the JoinHandle reports as a JoinError) changes no row.
Fails(t, kind, id) ==
  /\ \E e \in {"DatabaseError", "JoinError"} :
       Return(t, kind, id, None, None, e, {}, FALSE)
  /\ UNCHANGED <<db, used>>

\* insert_into(users).values(&new_user).returning(..).get_result(): the
\* datastore gives the row a fresh id and returns the row it stored.
create_user(t, name, email) ==
  /\ Dispatched(t)
  /\ \/ \E id \in Ids \ used, s \in Stamps :
          LET u == User(id, name, email, s) IN
            /\ db' = (id :> u) @@ db
            /\ used' = used \cup {id}
            /\ Return(t, "create", NoId, name, email, "Ok", {u}, FALSE)
     \/ Fails(t, "create", NoId)

\* A query that drops the filter on users::id and returns the first row.
get_user_by_id_first(t, id) ==
  /\ Dispatched(t)
  /\ UNCHANGED <<db, used>>
  /\ IF DOMAIN db # {}
     THEN \E i \in DOMAIN db : Return(t, "get", id, None, None, "Ok", {db[i]}, FALSE)
     ELSE Return(t, "get", id, None, None, "NotFound", {}, FALSE)

\* users.filter(id.eq(user_id)).first(): the row with that id, or NotFound.
get_user_by_id(t, id) ==
  /\ Dispatched(t)
  /\ \/ /\ UNCHANGED <<db, used>>
        /\ IF id \in DOMAIN db
           THEN Return(t, "get", id, None, None, "Ok", {db[id]}, FALSE)
           ELSE Return(t, "get", id, None, None, "NotFound", {}, FALSE)
     \/ Fails(t, "get", id)

get_all_users(t) ==
  /\ Dispatched(t)
  /\ \/ /\ UNCHANGED <<db, used>>
        /\ Return(t, "list", NoId, None, None, "Ok", {db[i] : i \in DOMAIN db}, FALSE)
     \/ Fails(t, "list", NoId)

\* An update that accepts a changeset with no field and returns the row.
update_user_empty_ok(t, id, name, email) ==
  /\ Dispatched(t)
  /\ \/ /\ id \in DOMAIN db
        /\ db' = [db EXCEPT ![id] = AsChangeset(db[id], name, email)]
        /\ UNCHANGED used
        /\ Return(t, "update", id, name, email, "Ok", {db'[id]}, FALSE)
     \/ /\ id \notin DOMAIN db
        /\ UNCHANGED <<db, used>>
        /\ Return(t, "update", id, name, email, "NotFound", {}, FALSE)
     \/ Fails(t, "update", id)

\* update(users.filter(id.eq(user_id))).set(&update_user).returning(..)
\* .get_result(): with no field set the changeset is empty and diesel fails
\* building the statement (QueryBuilderError), whatever the table holds; with
\* no row of that id get_result fails with NotFound.
update_user(t, id, name, email) ==
  /\ Dispatched(t)
  /\ \/ /\ name = None /\ email = None
        /\ UNCHANGED <<db, used>>
        /\ Return(t, "update", id, name, email, "QueryBuilderError", {}, FALSE)
     \/ /\ ~(name = None /\ email = None)
        /\ id \in DOMAIN db
        /\ db' = [db EXCEPT ![id] = AsChangeset(db[id], name, email)]
        /\ UNCHANGED used
        /\ Return(t, "update", id, name, email, "Ok", {db'[id]}, FALSE)
     \/ /\ ~(name = None /\ email = None)
        /\ id \notin DOMAIN db
        /\ UNCHANGED <<db, used>>
        /\ Return(t, "update", id, name, email, "NotFound", {}, FALSE)
     \/ Fails(t, "update", id)

\* Ok(deleted_count >= 0)
was_deleted_always(deleted_count) == deleted_count >= 0

\* Ok(deleted_count > 0)
was_deleted(deleted_count) == deleted_count > 0

delete_user(t, id) ==
  /\ Dispatched(t)
  /\ \/ /\ db' = [i \in DOMAIN db \ {id} |-> db[i]]
        /\ UNCHANGED used
        /\ Return(t, "delete", id, None, None, "Ok", {},
                  was_deleted(Cardinality(DOMAIN db \cap {id})))
     \/ Fails(t, "delete", id)

\* ------------------------------- the listener (examples/listen-notify.rs)
Channel == "system_insert"

Notification(n) == [type |-> "Notification", channel |-> Channel, payload |-> n]

Notice == [type |-> "Notice", channel |-> "", payload |-> 0]

\* `?` in main: the error is returned from main and the process ends, which
\* drops the runtime with the tasks it runs, and the client with its socket.
Exit ==
  /\ lpc' = "exit"
  /\ lconn' = IF lconn = "none" THEN "none" ELSE "closed"
  /\ fwd' = IF fwd = "running" THEN "stopped" ELSE fwd
  /\ cons' = IF cons = "running" THEN "stopped" ELSE cons
  /\ listening' = {}

\* tokio_postgres::connect(&database_url, NoTls).await?
connect ==
  /\ running = "none"
  /\ running' = "listener"
  /\ \/ /\ lconn' = "up"
        /\ lpc' = "spawn"
        /\ UNCHANGED <<fwd, cons, listening>>
     \/ Exit
  /\ UNCHANGED <<svars, wire, chan, got, sent, installed, lcmds>>

\* mpsc::unbounded(), then the two tokio::spawn calls: the task that forwards
\* connection.poll_message into tx, and the task that consumes rx.
spawn ==
  /\ lpc = "spawn"
  /\ lpc' = "function"
  /\ fwd' = "running"
  /\ cons' = "running"
  /\ UNCHANGED <<running, svars, lconn, wire, chan, got, sent, installed, listening, lcmds>>

\* client.execute(..).await? : the statement succeeds only over a live
\* connection that the forwarding task is polling; it can fail in any case.
Executes == lconn = "up" /\ fwd = "running"

\* CREATE OR REPLACE FUNCTION new_system_notify()
execute_function ==
  /\ lpc = "function"
  /\ \/ /\ Executes
        /\ installed' = installed \cup {"function"}
        /\ lcmds' = lcmds \cup {"ddl"}
        /\ lpc' = "trigger"
        /\ UNCHANGED <<lconn, fwd, cons, listening>>
     \/ Exit /\ UNCHANGED <<installed, lcmds>>
  /\ UNCHANGED <<running, svars, wire, chan, got, sent>>

\* CREATE OR REPLACE TRIGGER system_insert AFTER INSERT ON test_table
execute_trigger ==
  /\ lpc = "trigger"
  /\ \/ /\ Executes
        /\ installed' = installed \cup {"trigger"}
        /\ lcmds' = lcmds \cup {"ddl"}
        /\ lpc' = "listen"
        /\ UNCHANGED <<lconn, fwd, cons, listening>>
     \/ Exit /\ UNCHANGED <<installed, lcmds>>
  /\ UNCHANGED <<running, svars, wire, chan, got, sent>>

\* LISTEN system_insert, and then `loop {}`: main never returns.
execute_listen ==
  /\ lpc = "listen"
  /\ \/ /\ Executes
        /\ listening' = listening \cup {Channel}
        /\ lcmds' = lcmds \cup {"listen"}
        /\ lpc' = "loop"
        /\ UNCHANGED <<lconn, fwd, cons>>
     \/ Exit /\ UNCHANGED lcmds
  /\ UNCHANGED <<running, svars, wire, chan, got, sent, installed>>

\* A row is inserted into test_table by some session.  With the function and
\* the trigger installed, pg_notify sends the row to the sessions that listen.
Insert ==
  /\ running = "listener"
  /\ lpc # "exit"
  /\ sent < MaxFrames
  /\ sent' = sent + 1
  /\ wire' = IF /\ {"function", "trigger"} \subseteq installed
                /\ Channel \in listening
                /\ lconn = "up"
             THEN Append(wire, Notification(sent + 1))
             ELSE wire
  /\ UNCHANGED <<running, svars, lpc, lconn, fwd, cons, chan, got, installed, listening, lcmds>>

\* The datastore sends a frame of another kind (a NoticeResponse).
ServerNotice ==
  /\ lconn = "up"
  /\ sent < MaxFrames
  /\ sent' = sent + 1
  /\ wire' = Append(wire, Notice)
  /\ UNCHANGED <<running, svars, lpc, lconn, fwd, cons, chan, got, installed, listening, lcmds>>

\* The connection breaks; the session, and what it listened to, is gone.
ConnectionLost ==
  /\ lconn = "up"
  /\ lconn' = "lost"
  /\ listening' = {}
  /\ UNCHANGED <<running, svars, lpc, fwd, cons, wire, chan, got, sent, installed, lcmds>>

\* stream::poll_fn(connection.poll_message) yields a frame, and forward
\* sends it into tx.
poll_message ==
  /\ fwd = "running"
  /\ lconn = "up"
  /\ wire # <<>>
  /\ chan' = Append(chan, Head(wire))
  /\ wire' = Tail(wire)
  /\ UNCHANGED <<running, svars, lpc, lconn, fwd, cons, got, sent, installed, listening, lcmds>>

\* A forwarding task that opens a new connection when poll_message fails.
poll_message_err_reconnect ==
  /\ fwd = "running"
  /\ lconn = "lost"
  /\ lconn' = "up"
  /\ UNCHANGED <<running, svars, lpc, fwd, cons, wire, chan, got, sent, installed, listening, lcmds>>

\* poll_message yields an error: map_err(|e| panic!(..)) panics inside the
\* forwarding task.  The task ends, tx is dropped, nothing reconnects.
poll_message_err ==
  /\ fwd = "running"
  /\ lconn = "lost"
  /\ fwd' = "panicked"
  /\ UNCHANGED <<running, svars, lpc, lconn, cons, wire, chan, got, sent, installed, listening, lcmds>>

\* A consumer that keeps every message it receives.
filter_map_keep ==
  /\ cons = "running"
  /\ chan # <<>>
  /\ chan' = Tail(chan)
  /\ got' = Append(got, Head(chan))
  /\ UNCHANGED <<running, svars, lpc, lconn, fwd, cons, wire, sent, installed, listening, lcmds>>

\* rx.filter_map: a Notification is printed and kept, any other message is
\* dropped.
filter_map ==
  /\ cons = "running"
  /\ chan # <<>>
  /\ chan' = Tail(chan)
  /\ got' = IF Head(chan).type = "Notification" THEN Append(got, Head(chan)) ELSE got
  /\ UNCHANGED <<running, svars, lpc, lconn, fwd, cons, wire, sent, installed, listening, lcmds>>

\* collect::<Vec<_>>() returns once the channel is empty and closed (tx was
\* dropped with the forwarding task); the consumer prints and ends.
collect ==
  /\ cons = "running"
  /\ chan = <<>>
  /\ fwd = "panicked"
  /\ cons' = "done"
  /\ UNCHANGED <<running, svars, lpc, lconn, fwd, wire, chan, got, sent, installed, listening, lcmds>>

\* What the listener process does by itself (not the datastore, not the net).
ListenerStep ==
  \/ connect
  \/ spawn
  \/ execute_function
  \/ execute_trigger
  \/ execute_listen
  \/ poll_message
  \/ poll_message_err
  \/ filter_map
  \/ collect

ListenerNext ==
  \/ ListenerStep
  \/ Insert
  \/ ServerNotice
  \/ ConnectionLost

\* ------------------------------------------------------ specifications
\* Spec: the listener example, or the server under load.  More requests than
\* connections, so that the pool is exhausted; the requests are the four that
\* address one row, with one name and one email (DataSpec has the others).
LoadNext ==
  \/ establish_connection_pool
  \/ Tick
  \/ \E t \in Tasks :
       \/ Request(t)
       \/ get_connection(t)
       \/ \E k \in Kinds : get_connection_err(t, k)
       \/ Abandon(t)
       \/ create_user(t, "ann", "a@x")
       \/ get_user_by_id(t, "u1")
       \/ update_user(t, "u1", "bob", None)
       \/ delete_user(t, "u1")

Next == LoadNext \/ ListenerNext

Spec == Init /\ [][Next]_vars

\* DataSpec: the listener example, or the server with as many requests as
\* connections, of every kind and with every combination of fields, so that
\* the rows go through every value.
DataNext ==
  \/ ListenerNext
  \/ establish_connection_pool
  \/ \E t \in 1..max_size :
       \/ Request(t)
       \/ get_all_users(t)
       \/ \E name \in Names, email \in Emails : create_user(t, name, email)
       \/ \E id \in Ids :
            \/ get_user_by_id(t, id)
            \/ delete_user(t, id)
            \/ \E name \in Names \cup {None}, email \in Emails \cup {None} :
                 update_user(t, id, name, email)

DataSpec == Init /\ [][DataNext]_vars

\* ListenerSpec: the listener example alone.
ListenerSpec == Init /\ [][ListenerNext]_vars

\* ListenerFairSpec: the tokio runtime polls every task that is ready, so a
\* step of the listener process that stays possible is eventually taken.
ListenerFairSpec ==
  /\ ListenerSpec
  /\ WF_vars(spawn)
  /\ WF_vars(execute_function)
  /\ WF_vars(execute_trigger)
  /\ WF_vars(execute_listen)
  /\ WF_vars(poll_message)
  /\ WF_vars(poll_message_err)
  /\ WF_vars(filter_map)
  /\ WF_vars(collect)

\* =============================================================== claims
CheckedOut == {t \in Tasks : conn[t] # 0}

Held == {conn[t] : t \in CheckedOut}

\* C1: the number of connections checked out at the same time never exceeds
\* the pool capacity, and every connection in use is one of the at most
\* max_size connections of the pool: an acquire at full capacity waits or
\* fails, it never gets an extra connection.
C1_PoolCapacity ==
  /\ Cardinality(CheckedOut) <= max_size
  /\ Cardinality(pool) <= max_size
  /\ Held \cup idle \subseteq pool
  /\ \A t \in Tasks : pc[t] \in {"spawned", "detached"} <=> conn[t] # 0

\* C1 witness: the whole capacity is checked out and another acquire waits.
C1_Witness ==
  /\ Cardinality(CheckedOut) = max_size
  /\ idle = {}
  /\ \E t \in Tasks : pc[t] = "acquire" /\ waited[t] > 0

\* C2: a connection is checked out only while its operation is in flight: an
\* operation that has finished (Ok, datastore error or panic) holds none, the
\* connections are either idle or held, never lost, and with every
\* operation finished the whole pool is idle.
C2_ReleasedOnEveryExit ==
  /\ \A t \in Tasks : pc[t] \in {"idle", "acquire"} => conn[t] = 0
  /\ Held \cup idle = pool
  /\ Held \cap idle = {}
  /\ (\A t \in Tasks : pc[t] = "idle") => idle = pool

\* C2 witness: a closure has panicked and every operation has finished.
C2_Witness ==
  /\ resp.outcome = "JoinError"
  /\ \A t \in Tasks : pc[t] = "idle"
  /\ idle = pool /\ pool # {}

\* C3 (as claimed): every blocking step of an operation in flight runs on a
\* worker thread, never on the event-loop thread that invoked it.
C3_NeverBlocksEventLoop ==
  \A t \in Tasks : pc[t] # "idle" => ExecutionContext(t) = "worker"

\* The status the claim C4 gives to a response.
C4_ExpectedStatus(r) ==
  CASE r.outcome = "Ok" /\ r.kind = "delete" -> IF r.deleted THEN {204} ELSE {404}
    [] r.outcome = "Ok" /\ r.kind # "delete" -> {200, 201}
    [] r.outcome = "NotFound" /\ r.kind \in {"get", "update"} -> {404}
    [] OTHER -> {500}

\* C4 (as claimed): the status of every response is the one of its failure
\* class: 404 for a missing row, 500 for every other failure, 2xx for Ok.
C4_StatusByFailureClass ==
  resp.kind # "none" => resp.status \in C4_ExpectedStatus(resp)

\* A step in which task t leaves pool.get() with an error.
AcquireFails(t) == pc[t] = "acquire" /\ pc'[t] = "idle"

\* C5: an acquire on an exhausted pool fails only when the timeout has
\* elapsed, and with the timeout elapsed and nothing idle it can only fail;
\* the failure is the caller's PoolExhausted error response, and the
\* operation has sent no command and changed no row.
C5_TimeoutNotBefore ==
  /\ [][\A t \in Tasks : AcquireFails(t) =>
          /\ waited[t] = ConnectionTimeout
          /\ conn[t] = 0 /\ conn'[t] = 0
          /\ resp'.outcome = "PoolExhausted" /\ resp'.status >= 400
          /\ db' = db /\ pcmds' = pcmds /\ idle' = idle]_vars
  /\ [](\A t \in Tasks :
          (pc[t] = "acquire" /\ waited[t] = ConnectionTimeout /\ idle = {}) =>
            /\ ~ ENABLED get_connection(t)
            /\ \A k \in Kinds : ENABLED get_connection_err(t, k))

\* C5 witness: an acquire has waited for the timeout and failed, with the
\* whole capacity still checked out.
C5_Witness ==
  /\ resp.outcome = "PoolExhausted"
  /\ Cardinality(CheckedOut) = max_size
  /\ pcmds # {}

\* The lifecycle state of the listener (spec 4.3), read off the example.
ListenerState ==
  CASE lconn = "up" /\ lpc = "loop" /\ fwd = "running" -> "Listening"
    [] lconn = "up" /\ lpc \in {"spawn", "function", "trigger", "listen"} -> "Connecting"
    [] lconn = "lost" -> "Failed"
    [] OTHER -> "Disconnected"

\* C6 (as claimed): a lost connection is not fatal: whenever the connection
\* is lost, the listener is still on its way back to Listening, so once it
\* can take no further step it is subscribed to its channel again.
C6_ReconnectsAfterLoss ==
  (lconn = "lost" /\ ~ ENABLED ListenerStep) =>
     (ListenerState = "Listening" /\ Channel \in listening)

\* C8: the two connection populations are disjoint: the process that holds a
\* listener connection has no pool and no checked-out connection, the
\* listener connection executes only the trigger DDL and LISTEN, the pooled
\* connections execute only CRUD statements, and the process with the pool
\* never subscribes or receives a notification.
C8_DisjointConnections ==
  /\ lcmds \subseteq {"ddl", "listen"}
  /\ pcmds \subseteq {"crud"}
  /\ lconn # "none" => (pool = {} /\ CheckedOut = {} /\ pcmds = {} /\ resp = NoResp)
  /\ pool # {} => (lconn = "none" /\ lcmds = {} /\ listening = {}
                   /\ wire = <<>> /\ chan = <<>> /\ got = <<>>)

\* C8 witness: the listener connection has subscribed and delivered.
C8_Witness == "listen" \in lcmds /\ got # <<>> /\ lconn = "up"

\* A step in which a caller that is still there gets the response of kind k.
Responds(k) ==
  /\ \E t \in Tasks : pc[t] = "spawned" /\ pc'[t] = "idle"
  /\ resp'.kind = k

\* C9: an update_user that sets exactly one of name and email stores that
\* value, leaves every other column of the row and every other row as they
\* were, returns the row, and the same update applied to the result changes
\* nothing.
C9_PartialUpdate ==
  [][(/\ Responds("update")
      /\ resp'.outcome = "Ok"
      /\ (resp'.name = None) # (resp'.email = None)) =>
       LET id == resp'.id
           n == resp'.name
           e == resp'.email
       IN /\ id \in DOMAIN db /\ DOMAIN db' = DOMAIN db
          /\ db'[id].name = (IF n = None THEN db[id].name ELSE n)
          /\ db'[id].email = (IF e = None THEN db[id].email ELSE e)
          /\ db'[id].id = db[id].id
          /\ db'[id].created_at = db[id].created_at
          /\ db'[id].updated_at = db[id].updated_at
          /\ \A j \in DOMAIN db \ {id} : db'[j] = db[j]
          /\ resp'.users = {db'[id]}
          /\ AsChangeset(db'[id], n, e) = db'[id]]_vars

\* C9 witness: an update of the email alone has changed a row.
C9_Witness ==
  /\ resp.kind = "update" /\ resp.outcome = "Ok"
  /\ resp.name = None /\ resp.email = "b@x"
  /\ \E u \in resp.users : u.name = "bob" /\ u.email = "b@x" /\ db[u.id] = u

\* C10 (as claimed): delete_user of an identity that does not exist returns
\* false, reported as 404, and never an Internal failure.
C10_DeleteMissingNeverInternal ==
  [][(Responds("delete") /\ resp'.id \notin DOMAIN db) =>
       (resp'.outcome = "Ok" /\ ~ resp'.deleted /\ resp'.status = 404)]_vars

\* C10 (amended): a delete_user whose statement the datastore executes
\* returns true exactly when the row existed, and the row is then gone and
\* stays gone; for an identity that does not exist it returns false,
\* reported as 404; a delete_user that fails (500) has removed nothing; and a
\* get_user_by_id of an identity without a row never returns Ok.
C10_DeleteOutcome ==
  [][/\ Responds("delete") =>
          LET id == resp'.id IN
            /\ resp'.outcome = "Ok" =>
                 /\ resp'.deleted = (id \in DOMAIN db)
                 /\ DOMAIN db' = DOMAIN db \ {id}
                 /\ \A j \in DOMAIN db' : db'[j] = db[j]
                 /\ resp'.status = (IF id \in DOMAIN db THEN 204 ELSE 404)
            /\ resp'.outcome # "Ok" =>
                 /\ resp'.outcome \in {"DatabaseError", "JoinError"}
                 /\ ~ resp'.deleted /\ db' = db /\ resp'.status = 500
     /\ \A id \in used \ DOMAIN db : id \notin DOMAIN db'
     /\ (Responds("get") /\ resp'.id \notin DOMAIN db) =>
          resp'.outcome \in {"NotFound", "DatabaseError", "JoinError"}]_vars

\* C10 witness: a delete of an identity that never existed returned false.
C10_Witness ==
  /\ resp.kind = "delete" /\ resp.outcome = "Ok"
  /\ ~ resp.deleted /\ resp.status = 404
  /\ resp.id \notin used

\* C11: create_user returns the row the datastore stored, under a fresh id
\* and with the name and email of the request; as long as no update_user and
\* no delete_user of that id succeeds, no step changes that row, whatever
\* other operations do to other ids on other connections; and
\* get_user_by_id returns the stored row: so it returns an entity equal to the
\* one create_user returned.
C11_CreateGetRoundTrip ==
  [][/\ (Responds("create") /\ resp'.outcome = "Ok") =>
          \E u \in resp'.users :
            /\ resp'.users = {u}
            /\ u.id \in Ids \ (used \cup DOMAIN db)
            /\ u.name = resp'.name /\ u.email = resp'.email
            /\ db' = (u.id :> u) @@ db
     /\ \A id \in DOMAIN db :
          (id \notin DOMAIN db' \/ db'[id] # db[id]) =>
            /\ resp'.kind \in {"update", "delete"}
            /\ resp'.id = id /\ resp'.outcome = "Ok"
     /\ (Responds("get") /\ resp'.outcome = "Ok") =>
          /\ resp'.id \in DOMAIN db
          /\ resp'.users = {db[resp'.id]}
          /\ db' = db]_vars

\* C11 witness: a get_user_by_id has returned the row of its id while the
\* table holds a row of another id, with other field values.
C11_Witness ==
  /\ resp.kind = "get" /\ resp.outcome = "Ok"
  /\ resp.id \in DOMAIN db /\ resp.users = {db[resp.id]}
  /\ \E j \in DOMAIN db : j # resp.id /\ db[j].name # db[resp.id].name

\* What TriggerRegistrar installs: the notification function and the trigger.
TriggerRegistrar == {"function", "trigger"}

\* C12 (as claimed): the function and the trigger are both installed before
\* the LISTEN command is issued and before any CRUD operation is served, and
\* a process that ended on a failed installation step has issued no LISTEN.
C12_RegistrarBeforeUse ==
  /\ ("listen" \in lcmds \/ Channel \in listening) => TriggerRegistrar \subseteq installed
  /\ pcmds # {} => TriggerRegistrar \subseteq installed
  /\ (lpc = "exit" /\ ~ (TriggerRegistrar \subseteq installed)) => "listen" \notin lcmds

\* C13: a checked-out connection has exactly one owner: no two operations in
\* flight hold the same connection, a held connection is not idle in the pool
\* (so it cannot be handed out again), and the connections out of the pool
\* are as many as the operations that hold one: each holds one, none two.
C13_ExclusiveOwnership ==
  /\ \A t1 \in Tasks, t2 \in Tasks :
       (t1 # t2 /\ conn[t1] # 0) => conn[t1] # conn[t2]
  /\ \A t \in Tasks : conn[t] # 0 => conn[t] \in pool \ idle
  /\ Cardinality(pool \ idle) = Cardinality(CheckedOut)

\* C13 witness: two operations in flight hold the two different connections,
\* one of them abandoned by its caller, after a connection was reused.
C13_Witness ==
  /\ \E t1 \in Tasks, t2 \in Tasks :
       /\ pc[t1] = "spawned" /\ pc[t2] = "detached"
       /\ conn[t1] # 0 /\ conn[t2] # 0 /\ conn[t1] # conn[t2]
  /\ resp.outcome = "Ok"

\* The payloads of the Notification frames of a sequence of frames, in order.
RECURSIVE Payloads(_)
Payloads(frames) ==
  IF frames = <<>> THEN <<>>
  ELSE IF Head(frames).type = "Notification"
       THEN <<Head(frames).payload>> \o Payloads(Tail(frames))
       ELSE Payloads(Tail(frames))

\* A step that reads a frame from the socket, and one that takes a message
\* out of the channel.
ReadsFrame == Len(wire') < Len(wire)

TakesMessage == Len(chan') < Len(chan)

\* C14: every frame read from the socket goes into the channel, at its end,
\* and the read never waits for the consumer, however many messages the
\* channel holds; every message leaves the channel from its front, a
\* Notification into the collected notifications, at their end, any other
\* kind to nowhere; nothing else touches the channel or what was collected.
\* So the notifications arrive once each and in the order they were read.
C14_FramesClassified ==
  /\ [][/\ ReadsFrame => (wire' = Tail(wire) /\ chan' = Append(chan, Head(wire)) /\ got' = got)
        /\ TakesMessage =>
             /\ chan' = Tail(chan)
             /\ got' = IF Head(chan).type = "Notification"
                       THEN Append(got, Head(chan)) ELSE got
        /\ chan' # chan => (ReadsFrame \/ TakesMessage)
        /\ got' # got => TakesMessage]_vars
  /\ [](/\ \A i \in 1..Len(got) : got[i].type = "Notification"
        /\ LET ps == Payloads(got \o chan \o wire) IN
             \A i \in 1..Len(ps), j \in 1..Len(ps) : i < j => ps[i] < ps[j]
        /\ (fwd = "running" /\ lconn = "up" /\ wire # <<>>) => ENABLED poll_message)

\* C14 witness: two notifications were collected in the order they were sent,
\* and the frame of another kind that came between them was discarded.
C14_Witness ==
  /\ Len(got) = 2 /\ got[2].payload = got[1].payload + 2
  /\ chan = <<>> /\ wire = <<>> /\ lconn = "up"

\* C15: an operation that was dispatched (it owns a connection) keeps that
\* connection until its closure has run: the only step that ends it is the
\* return of the closure, which has sent its command and puts the connection
\* back, whether the caller still waits or was dropped; a dropped caller gets
\* no response, and its closure can still run and change rows like any other.
C15_RunsToCompletion ==
  /\ [][\A t \in Tasks : conn[t] # 0 =>
          \/ /\ conn'[t] = conn[t]
             /\ pc'[t] \in {pc[t], "detached"}
             /\ conn[t] \notin idle'
          \/ /\ pc'[t] = "idle" /\ conn'[t] = 0
             /\ conn[t] \in idle'
             /\ "crud" \in pcmds'
             /\ pc[t] = "detached" => resp' = resp]_vars
  /\ [](\A t \in Tasks : pc[t] = "detached" =>
          /\ conn[t] \in pool \ idle
          /\ ENABLED get_user_by_id(t, "u1")
          /\ "u1" \in DOMAIN db => ENABLED (delete_user(t, "u1") /\ "u1" \notin DOMAIN db'))

\* C15 witness: a row was stored although no caller ever got a response: the
\* create_user of a dropped caller ran, and gave its connection back.
C15_Witness ==
  /\ resp = NoResp /\ DOMAIN db # {}
  /\ \A t \in Tasks : pc[t] = "idle"
  /\ idle = pool

\* The errors a repository call can return to its caller.
Errors == {"PoolExhausted", "NotFound", "QueryBuilderError", "DatabaseError", "JoinError"}

\* The response r, returned over the table rows, carries the result of its
\* kind: the row for create, get and update, the rows for list, and for
\* delete whether the row was there before.
HasResult(r, before, rows) ==
  CASE r.kind \in {"create", "get", "update"} ->
         \E i \in DOMAIN rows : r.users = {rows[i]}
    [] r.kind = "list" -> r.users = {rows[i] : i \in DOMAIN rows}
    [] r.kind = "delete" -> r.deleted = (r.id \in DOMAIN before)
    [] OTHER -> FALSE

\* C16: the step that ends an operation whose caller still waits returns one
\* response: either Ok with the result of its kind and a status below 400
\* (404 for a delete that found nothing), or one error, with no result, an
\* error status and no row changed.  A failed acquire returns PoolExhausted,
\* and a datastore error or a panic of the closure returns that error.
C16_ResultOrError ==
  [][\A t \in Tasks : (pc[t] \in {"acquire", "spawned"} /\ pc'[t] = "idle") =>
       /\ resp'.kind \in Kinds
       /\ resp'.outcome \in {"Ok"} \cup Errors
       /\ resp'.outcome = "Ok" =>
            /\ HasResult(resp', db, db')
            /\ resp'.status \in (IF resp'.kind = "delete" /\ ~ resp'.deleted
                                 THEN {404} ELSE {200, 204})
       /\ resp'.outcome \in Errors =>
            /\ resp'.users = {} /\ ~ resp'.deleted
            /\ resp'.status \in {404, 500}
            /\ db' = db
       /\ (pc[t] = "acquire") <=> (resp'.outcome = "PoolExhausted")
       /\ (resp'.outcome \in {"DatabaseError", "JoinError", "NotFound"})
            => "crud" \in pcmds']_vars

\* C16 witness: an update_user of a row that exists failed in the datastore,
\* and its caller got the error.
C16_Witness ==
  /\ resp.kind = "update" /\ resp.outcome = "DatabaseError"
  /\ resp.id \in DOMAIN db /\ resp.status = 500
  /\ resp.users = {}

\* C17 (as claimed): once the connection stream has failed and the forwarding
\* task has stopped, the process does not terminate and does not reconnect:
\* main is not ended, the consumer is running or has finished by itself, and
\* the connection stays lost.
C17_NeverTerminatesAfterError ==
  fwd = "panicked" =>
    /\ lpc # "exit"
    /\ cons \in {"running", "done"}
    /\ lconn = "lost"

\* C17 (amended): the forwarding task stops on the error and stays stopped,
\* and nothing is read from the socket or put into the channel afterwards;
\* the connection is never opened again.  When main has reached its loop it
\* stays there, the consumer drains the channel and finishes, and after that
\* nothing is delivered.  When main is still setting up, its statement fails
\* and the process terminates instead.
C17_StopsAfterError ==
  /\ [][/\ fwd = "panicked" =>
             (fwd' = "panicked" /\ ~ ReadsFrame /\ Len(chan') <= Len(chan))
        /\ lconn = "lost" => lconn' \in {"lost", "closed"}
        /\ lconn \in {"lost", "closed"} => listening' = {}
        /\ lpc = "loop" => (lpc' = "loop" /\ lconn' # "closed")
        /\ cons = "done" => (cons' = "done" /\ got' = got)]_vars
  /\ (lconn = "lost" /\ fwd = "running") ~> (fwd # "running")
  /\ (fwd = "panicked" /\ lpc = "loop") ~> (cons = "done" /\ chan = <<>>)
  /\ (fwd = "panicked" /\ lpc \in {"function", "trigger", "listen"}) ~> (lpc = "exit")

\* C17 witness: the connection was lost while main loops; the forwarding task
\* has panicked, and the consumer has finished with what it had collected.
C17_Witness ==
  /\ lpc = "loop" /\ lconn = "lost"
  /\ fwd = "panicked" /\ cons = "done"
  /\ got # <<>> /\ sent = MaxFrames

\* C18: an update_user with neither name nor email returns an error, reported
\* as 500, whether or not a row of its id exists; it changes no row, and the
\* connection it held is idle in the pool again.
C18_EmptyUpdateFails ==
  [][\A t \in Tasks :
       (/\ pc[t] = "spawned" /\ pc'[t] = "idle"
        /\ resp'.kind = "update"
        /\ resp'.name = None /\ resp'.email = None) =>
         /\ resp'.outcome \in Errors
         /\ resp'.users = {} /\ resp'.status = 500
         /\ db' = db
         /\ conn'[t] = 0 /\ conn[t] \in idle']_vars

\* C18 witness: an update_user with no field, of a row that exists, was
\* refused as an empty changeset, and the whole pool is idle.
C18_Witness ==
  /\ resp.kind = "update" /\ resp.outcome = "QueryBuilderError"
  /\ resp.name = None /\ resp.email = None
  /\ resp.id \in DOMAIN db
  /\ idle = pool /\ pool # {}
=============================================================================
